---- MODULE Spec2Model ----
(***************************************************************************)
(* The request router of src/index.ts: a Worker `fetch` handler that       *)
(* dispatches on method and path to the generation binding (env.AI), the   *)
(* browser binding (env.BROWSER) or the MCP agent (PlaywrightMCP).         *)
(*                                                                         *)
(* The source holds two versions of the handler: lines 6-46 (with          *)
(* /version, without /extract) and lines 64-200 (with /extract, without    *)
(* /version).  `variant` says which one is deployed.                       *)
(*                                                                         *)
(* A request is one invocation of fetch.  Each action is the code that     *)
(* runs between two awaits of one invocation, so the invocations of        *)
(* different requests interleave at their awaits.                          *)
(***************************************************************************)
EXTENDS Integers, Sequences, FiniteSets, TLC

\* Number of requests in flight in the concurrent specification.
NumReqs == 2
\* Longest document (in form controls) the scrape specification explores.
MaxInputs == 2

Reqs == 1..NumReqs

(***************************************************************************)
(* JavaScript / JSON values, tagged by type.                               *)
(***************************************************************************)
Undefined == [t |-> "undefined"]
Null == [t |-> "null"]
Str(s) == [t |-> "str", v |-> s]
Num(n) == [t |-> "num", v |-> n]
Bool(b) == [t |-> "bool", v |-> b]
List(q) == [t |-> "list", v |-> q]
\* A request body that is not JSON text.
Malformed == [t |-> "malformed"]
\* A rejected promise / thrown exception.
Thrown == [t |-> "throw"]

\* A JSON object body with the six fields the handlers read; a field that
\* is not in the object reads as undefined.
Obj(messages, prompt, model, stream, max_tokens, url) ==
    [t |-> "obj", messages |-> messages, prompt |-> prompt, model |-> model,
     stream |-> stream, max_tokens |-> max_tokens, url |-> url]
EmptyObj == Obj(Undefined, Undefined, Undefined, Undefined, Undefined, Undefined)

\* One chat message {role, content}.
Msg(role, content) == [t |-> "msg", role |-> role, content |-> content]

\* body?.f : undefined for null and for a JSON value that is no object.
Get(body, f) == IF body.t = "obj" THEN body[f] ELSE Undefined

\* a ?? b
Nullish(v) == v.t \in {"undefined", "null"}
Coalesce(v, d) == IF Nullish(v) THEN d ELSE v
\* a || b and !a
Falsy(v) ==
    \/ Nullish(v)
    \/ (v.t = "str" /\ v.v = "")
    \/ (v.t = "num" /\ v.v = 0)
    \/ (v.t = "bool" /\ v.v = FALSE)
OrElse(v, d) == IF Falsy(v) THEN d ELSE v

(***************************************************************************)
(* Reading the body.                                                       *)
(***************************************************************************)
\* A reader without the catch: the parse error propagates.
readJsonThrows(raw) == IF raw.t = "malformed" THEN Thrown ELSE raw

\* async function readJson(req): try { return await req.json() } catch { return {} }
readJson(raw) == IF raw.t = "malformed" THEN EmptyObj ELSE raw

\* request.json().catch(() => ({}))
jsonCatch(raw) == IF raw.t = "malformed" THEN EmptyObj ELSE raw

(***************************************************************************)
(* POST /sse: the arguments of env.AI.run(model, {stream, max_tokens,      *)
(* messages}).                                                             *)
(***************************************************************************)
DefaultModel == "@cf/meta/llama-3.3-70b-instruct-fp8-fast"
DefaultMaxTokens == 2048

\* The same defaults written with || instead of ??.
SseArgsOr(body) ==
    [messages |-> OrElse(Get(body, "messages"),
                     List(<<Msg(Str("user"), OrElse(Get(body, "prompt"), Str("")))>>)),
     model |-> OrElse(Get(body, "model"), Str(DefaultModel)),
     stream |-> OrElse(Get(body, "stream"), Bool(TRUE)),
     max_tokens |-> OrElse(Get(body, "max_tokens"), Num(DefaultMaxTokens))]

\* The defaults with messages built from the prompt whenever a prompt is given.
SseArgsPromptFirst(body) ==
    [messages |-> IF ~Nullish(Get(body, "prompt"))
                  THEN List(<<Msg(Str("user"), Get(body, "prompt"))>>)
                  ELSE Coalesce(Get(body, "messages"), List(<<Msg(Str("user"), Str(""))>>)),
     model |-> Coalesce(Get(body, "model"), Str(DefaultModel)),
     stream |-> Coalesce(Get(body, "stream"), Bool(TRUE)),
     max_tokens |-> Coalesce(Get(body, "max_tokens"), Num(DefaultMaxTokens))]

\* Lines 22-27 (first version of the handler).
SseArgs1(body) ==
    [messages |-> Coalesce(Get(body, "messages"),
                     List(<<Msg(Str("user"), Coalesce(Get(body, "prompt"), Str("")))>>)),
     model |-> Coalesce(Get(body, "model"), Str(DefaultModel)),
     stream |-> Coalesce(Get(body, "stream"), Bool(TRUE)),
     max_tokens |-> Coalesce(Get(body, "max_tokens"), Num(DefaultMaxTokens))]

\* Lines 77-80 (second version of the handler).
SseArgs2(body) ==
    [messages |-> Coalesce(Get(body, "messages"),
                     List(<<Msg(Str("user"), Coalesce(Get(body, "prompt"), Str("")))>>)),
     model |-> Coalesce(Get(body, "model"), Str(DefaultModel)),
     stream |-> Coalesce(Get(body, "stream"), Bool(TRUE)),
     max_tokens |-> Coalesce(Get(body, "max_tokens"), Num(DefaultMaxTokens))]

(***************************************************************************)
(* Routing.  The result names the behaviour the handler takes.             *)
(***************************************************************************)
\* The switch with the /sse/message case dropped, and with the default
\* misdirected to the agent.
McpSwitchNoMessage(pathname) ==
    CASE pathname = "/sse" -> "serveSSE"
      [] pathname = "/mcp" -> "serve"
      [] OTHER -> "notfound"

McpSwitchDefaultServe(pathname) ==
    CASE pathname \in {"/sse", "/sse/message"} -> "serveSSE"
      [] OTHER -> "serve"

\* switch (pathname) of lines 36-44.
McpSwitch1(pathname) ==
    CASE pathname \in {"/sse", "/sse/message"} -> "serveSSE"
      [] pathname = "/mcp" -> "serve"
      [] OTHER -> "notfound"

\* switch (pathname) of lines 190-198.
McpSwitch2(pathname) ==
    CASE pathname \in {"/sse", "/sse/message"} -> "serveSSE"
      [] pathname = "/mcp" -> "serve"
      [] OTHER -> "notfound"

\* fetch of lines 7-45: the chain of ifs, then the switch.
Route1(method, pathname) ==
    IF method = "GET" /\ pathname = "/health" THEN "health"
    ELSE IF method = "GET" /\ pathname = "/version" THEN "version"
    ELSE IF method = "POST" /\ pathname = "/sse" THEN "generate"
    ELSE McpSwitch1(pathname)

\* fetch of lines 65-199: the chain of ifs, then the switch.
Route2(method, pathname) ==
    IF method = "GET" /\ pathname = "/health" THEN "health"
    ELSE IF method = "POST" /\ pathname = "/sse" THEN "generate"
    ELSE IF method = "POST" /\ pathname = "/extract" THEN "extract"
    ELSE McpSwitch2(pathname)

Route(v, method, pathname) ==
    IF v = 1 THEN Route1(method, pathname) ELSE Route2(method, pathname)

(***************************************************************************)
(* The document the browser renders, as the in-page function sees it.      *)
(* Text is a sequence of characters; a form control carries what the DOM   *)
(* queries of the function return for it.                                  *)
(***************************************************************************)
\* "No element": the result of a query that matches nothing.
NoNode == <<"#none">>

\* String.prototype.trim, on one side and on both.
RECURSIVE TrimLeft(_)
TrimLeft(s) == IF s # <<>> /\ Head(s) = " " THEN TrimLeft(Tail(s)) ELSE s
RECURSIVE TrimRight(_)
TrimRight(s) ==
    IF s # <<>> /\ s[Len(s)] = " " THEN TrimRight(SubSeq(s, 1, Len(s) - 1)) ELSE s
Trim(s) == TrimRight(TrimLeft(s))

\* s.replace(/\s+/g, " "): every run of white space becomes one space.
RECURSIVE CollapseSpaces(_)
CollapseSpaces(s) ==
    IF Len(s) < 2 THEN s
    ELSE IF s[1] = " " /\ s[2] = " " THEN CollapseSpaces(Tail(s))
    ELSE <<Head(s)>> \o CollapseSpaces(Tail(s))

\* labelFor(el): label[for=id], else the closest label, else a heading.
labelFor(el) ==
    LET byId == IF el.id # <<>> THEN el.forLabel ELSE NoNode
        lab == IF byId = NoNode THEN el.wrapLabel ELSE byId
    IN IF lab # NoNode THEN CollapseSpaces(Trim(lab))
       ELSE IF el.heading # NoNode THEN Trim(el.heading)
       ELSE <<>>

\* The heavy asterisk U+2731, one character of a text.
HeavyStar == "U+2731"

\* /[*U+2731]\s*$/.test(lbl)
EndsWithStar(lbl) ==
    LET t == TrimRight(lbl) IN t # <<>> /\ t[Len(t)] \in {"*", HeavyStar}

\* isRequired(el)
isRequired(el) ==
    IF el.ariaRequired = "true" THEN TRUE
    ELSE IF el.required THEN TRUE
    ELSE EndsWithStar(labelFor(el))

\* tagName.toLowerCase()
LowerTag(tag) ==
    CASE tag = "INPUT" -> "input" [] tag = "SELECT" -> "select" [] tag = "TEXTAREA" -> "textarea"

\* The object pushed for one visible control (lines 134-156).
FieldOf(el) ==
    LET type == IF el.type # "" THEN el.type ELSE LowerTag(el.tag)
        control == IF el.tag = "SELECT" THEN "select"
                   ELSE IF el.tag = "TEXTAREA" THEN "textarea" ELSE type
    IN [control |-> control, type |-> type, label |-> labelFor(el),
        name |-> Trim(el.name), placeholder |-> Trim(el.placeholder),
        required |-> isRequired(el)]

\* document.querySelectorAll('input, select, textarea').forEach(...): the
\* controls that are not hidden, in document order.
RECURSIVE FieldsLoop(_, _)
FieldsLoop(dom, results) ==
    IF dom = <<>> THEN results
    ELSE FieldsLoop(Tail(dom),
                    IF Head(dom).hidden THEN results
                    ELSE Append(results, FieldOf(Head(dom))))

\* A set whose add appends without looking for the value.
SetAddAlways(s, x) == Append(s, x)

\* Set.prototype.add: insertion order, no repeats.
SetAdd(s, x) == IF \E k \in DOMAIN s : s[k] = x THEN s ELSE Append(s, x)

\* The group key of an input: i.name || i.id || labelFor(i) || "ungrouped".
GroupKey(i) ==
    IF i.name # <<>> THEN i.name
    ELSE IF i.id # <<>> THEN i.id
    ELSE IF labelFor(i) # <<>> THEN labelFor(i)
    ELSE <<"u", "n", "g", "r", "o", "u", "p", "e", "d">>

\* (i.closest("label")?.textContent || "").trim() || i.value || ""
OptLabel(i) ==
    LET t == IF i.wrapLabel = NoNode THEN <<>> ELSE Trim(i.wrapLabel)
    IN IF t # <<>> THEN t ELSE i.value

\* One pass of the radio/checkbox loop over input i (lines 162-166).  groups
\* is the object keyed by group name, kept as its entries in insertion order.
GroupStep(groups, i) ==
    LET g == GroupKey(i)
        known == \E k \in DOMAIN groups : groups[k].group = g
        gs == IF known THEN groups
              ELSE Append(groups, [control |-> i.type, group |-> g, label |-> labelFor(i),
                                   options |-> [t |-> "set", v |-> <<>>],
                                   required |-> isRequired(i)])
        opt == OptLabel(i)
    IN [k \in DOMAIN gs |->
          IF gs[k].group = g /\ opt # <<>>
          THEN [gs[k] EXCEPT !.options.v = SetAdd(@, opt)]
          ELSE gs[k]]

\* document.querySelectorAll('input[type="radio"], input[type="checkbox"]').forEach(...)
RECURSIVE GroupsLoop(_, _)
GroupsLoop(dom, groups) ==
    IF dom = <<>> THEN groups
    ELSE GroupsLoop(Tail(dom),
                    IF Head(dom).tag = "INPUT" /\ Head(dom).type \in {"radio", "checkbox"}
                    THEN GroupStep(groups, Head(dom))
                    ELSE groups)

\* (g.options as Set).size && (g.options = Array.from(g.options)): the set
\* becomes an array only when it has a member.
Materialize(g) ==
    IF Len(g.options.v) # 0 THEN [g EXCEPT !.options = List(g.options.v)] ELSE g

\* The value the page.evaluate callback returns (lines 102-173).
Scrape(dom) ==
    LET groups == GroupsLoop(dom, <<>>)
    IN [fields |-> FieldsLoop(dom, <<>>),
        groups |-> [k \in DOMAIN groups |-> Materialize(groups[k])]]

\* JSON.stringify of a group's options: an array stays an array, a Set has
\* no enumerable property and is written as the empty object {}.
JsonOptions(o) == IF o.t = "list" THEN o ELSE [t |-> "object", v |-> <<>>]

\* JSON.stringify of the groups of a scrape result.
JsonGroups(groups) ==
    [k \in DOMAIN groups |-> [groups[k] EXCEPT !.options = JsonOptions(@)]]

(***************************************************************************)
(* Responses.                                                              *)
(***************************************************************************)
NoResponse == [kind |-> "none"]
\* The invocation threw: the runtime answers for it (typically a 5xx).
Uncaught == [kind |-> "exception"]
\* new Response(text, {status})
TextResponse(status, text) == [kind |-> "text", status |-> status, body |-> text]
\* new Response(s, {headers: {"content-type": "text/event-stream"}})
StreamResponse(s) ==
    [kind |-> "stream", status |-> 200, contentType |-> "text/event-stream", body |-> s]
\* What the MCP agent's own handler answers; its content is the library's.
McpResponse(handler) == [kind |-> "mcp", handler |-> handler]

\* JSON.stringify(obj): a key whose value is undefined is left out.
JsonStringify(obj) ==
    [k \in {x \in DOMAIN obj : obj[x].t # "undefined"} |-> obj[k]]

\* new Response(JSON.stringify({error: "Missing 'url'"}), {status: 400})
MissingUrlResponse ==
    [kind |-> "json", status |-> 400,
     json |-> JsonStringify([error |-> Str("Missing 'url'")])]

\* The bytes a screenshot resolves to, and the stream AI.run resolves to.
PngBytes == [t |-> "bytes"]
AiStream == [t |-> "stream"]

\* Lines 179-186: the response of a finished extraction.
ExtractResponse(targetUrl, fields, png) ==
    [kind |-> "json", status |-> 200, contentType |-> "application/json",
     json |-> JsonStringify(
        [url |-> targetUrl,
         extracted_at |-> Str("toISOString()"),
         fields |-> List(fields.fields),
         groups |-> List(JsonGroups(fields.groups)),
         screenshot_png_base64 |->
            IF ~Falsy(png) THEN Str("base64") ELSE Undefined])]

\* !targetUrl, with targetUrl = body?.url  (lines 89-90)
MissingUrlUndefinedOnly(body) == Get(body, "url").t = "undefined"
MissingUrl(body) == Falsy(Get(body, "url"))

\* page.screenshot({fullPage: true}).catch(() => undefined)
screenshotNoCatch(ok) == IF ok THEN PngBytes ELSE Thrown
screenshotCatch(ok) == IF ok THEN PngBytes ELSE Undefined

\* try { await page.waitForSelector(...) } catch {}
waitNoCatch(ok) == IF ok THEN Undefined ELSE Thrown
waitCatch(ok) == Undefined

\* process.env.GIT_COMMIT || "local"
VersionText(commit) == OrElse(commit, Str("local"))

(***************************************************************************)
(* State.                                                                  *)
(***************************************************************************)
VARIABLES
    variant,    \* which version of the handler is deployed: 1 or 2
    gitCommit,  \* process.env.GIT_COMMIT
    request,    \* request[r]: the method, path and raw body of request r
    pc,         \* pc[r]: the await invocation r is suspended at
    targetUrl,  \* targetUrl[r]: the local const of the extraction
    browser,    \* browser[r]: the local const holding the launched session
    document,   \* document[r]: the document the evaluate callback of r ran in
    fields,     \* fields[r]: the local const holding the evaluate result
    png,        \* png[r]: the local const holding the screenshot
    calls,      \* calls[r]: the calls invocation r made on bindings and agent
    answers,    \* answers[r]: how each awaited call of r ended
    aiArgs,     \* aiArgs[r]: the arguments r gave env.AI.run
    sessions,   \* the browser sessions launched so far, in launch order
    resp        \* resp[r]: the response of request r

vars == <<variant, gitCommit, request, pc, targetUrl, browser, document, fields, png,
          calls, answers, aiArgs, sessions, resp>>

NoRequest == [method |-> "", path |-> "", body |-> Undefined]
NoFields == [fields |-> <<>>, groups |-> <<>>]

\* GIT_COMMIT is unset, empty or a commit id; the second version of the
\* handler never reads it.
Init ==
    /\ variant \in {1, 2}
    /\ gitCommit \in {Undefined, Str(""), Str("abc123")}
    /\ variant = 2 => gitCommit = Undefined
    /\ request = [r \in Reqs |-> NoRequest]
    /\ pc = [r \in Reqs |-> "idle"]
    /\ targetUrl = [r \in Reqs |-> Undefined]
    /\ browser = [r \in Reqs |-> 0]
    /\ document = [r \in Reqs |-> <<>>]
    /\ fields = [r \in Reqs |-> NoFields]
    /\ png = [r \in Reqs |-> Undefined]
    /\ calls = [r \in Reqs |-> <<>>]
    /\ answers = [r \in Reqs |-> <<>>]
    /\ aiArgs = [r \in Reqs |-> Undefined]
    /\ sessions = <<>>
    /\ resp = [r \in Reqs |-> NoResponse]

\* The invocation returns (or throws): its response is final.
Finish(r, response) ==
    /\ pc' = [pc EXCEPT ![r] = "done"]
    /\ resp' = [resp EXCEPT ![r] = response]

\* The invocation calls op and suspends on its result.
Await(r, op) ==
    /\ pc' = [pc EXCEPT ![r] = op]
    /\ calls' = [calls EXCEPT ![r] = Append(@, op)]

\* The awaited call op of r ended: it resolved to value (ok) or it threw.
AnsweredWith(r, op, ok, value) ==
    answers' = [answers EXCEPT ![r] = Append(@, [op |-> op, ok |-> ok, value |-> value])]
Answered(r, op, ok) == AnsweredWith(r, op, ok, IF ok THEN Undefined ELSE Thrown)

\* The session the invocation closes: its own local const `browser`.
BrowserShared(r) == Len(sessions)
BrowserOf(r) == browser[r]

(***************************************************************************)
(* fetch, up to its first await.                                           *)
(***************************************************************************)
Fetch(r, Inputs) ==
    /\ pc[r] = "idle"
    /\ \E req \in Inputs :
         LET route == Route(variant, req.method, req.path) IN
         /\ request' = [request EXCEPT ![r] = req]
         /\ CASE route = "health" ->
                   Finish(r, TextResponse(200, Str("ok"))) /\ UNCHANGED calls
              [] route = "version" ->
                   Finish(r, TextResponse(200, VersionText(gitCommit))) /\ UNCHANGED calls
              [] route \in {"generate", "extract"} ->
                   /\ pc' = [pc EXCEPT ![r] = route \o ":json"]
                   /\ UNCHANGED <<calls, resp>>
              [] route \in {"serveSSE", "serve"} ->
                   /\ calls' = [calls EXCEPT ![r] = Append(@, "MCP." \o route)]
                   /\ Finish(r, McpResponse(route))
              [] OTHER ->
                   Finish(r, TextResponse(404, Str("Not Found"))) /\ UNCHANGED calls
    /\ UNCHANGED <<variant, gitCommit, document, targetUrl, browser, fields, png, answers,
                   aiArgs, sessions>>

(***************************************************************************)
(* POST /sse.                                                              *)
(***************************************************************************)
\* The body has been read: build the arguments and call env.AI.run.
SseBody(r) ==
    /\ pc[r] = "generate:json"
    /\ LET body == IF variant = 1 THEN jsonCatch(request[r].body)
                   ELSE readJson(request[r].body)
       IN IF body = Thrown
          THEN Finish(r, Uncaught) /\ UNCHANGED <<aiArgs, calls>>
          ELSE /\ aiArgs' = [aiArgs EXCEPT ![r] =
                               IF variant = 1 THEN SseArgs1(body) ELSE SseArgs2(body)]
               /\ Await(r, "AI.run")
               /\ UNCHANGED resp
    /\ UNCHANGED <<variant, gitCommit, document, request, targetUrl, browser, fields, png,
                   answers, sessions>>

\* env.AI.run resolved to a stream, or threw.
AiRun(r) ==
    /\ pc[r] = "AI.run"
    /\ \E ok \in BOOLEAN :
         /\ Answered(r, "AI.run", ok)
         /\ Finish(r, IF ok THEN StreamResponse(AiStream) ELSE Uncaught)
    /\ UNCHANGED <<variant, gitCommit, document, request, targetUrl, browser, fields, png,
                   calls, aiArgs, sessions>>

(***************************************************************************)
(* POST /extract.                                                          *)
(***************************************************************************)
\* The body has been read: 400 without a url, else launch a browser.
ExtractBody(r) ==
    /\ pc[r] = "extract:json"
    /\ LET body == readJson(request[r].body)
       IN IF body = Thrown
          THEN Finish(r, Uncaught) /\ UNCHANGED <<targetUrl, calls>>
          ELSE IF MissingUrl(body)
          THEN Finish(r, MissingUrlResponse) /\ UNCHANGED <<targetUrl, calls>>
          ELSE /\ targetUrl' = [targetUrl EXCEPT ![r] = Get(body, "url")]
               /\ Await(r, "launch")
               /\ UNCHANGED resp
    /\ UNCHANGED <<variant, gitCommit, document, request, browser, fields, png, answers,
                   aiArgs, sessions>>

\* env.BROWSER.launch() resolved to a new session, or threw.
Launch(r) ==
    /\ pc[r] = "launch"
    /\ \E ok \in BOOLEAN :
         /\ Answered(r, "launch", ok)
         /\ IF ok
            THEN /\ sessions' = Append(sessions, [owner |-> r, open |-> TRUE, closes |-> 0])
                 /\ browser' = [browser EXCEPT ![r] = Len(sessions) + 1]
                 /\ Await(r, "newContext")
                 /\ UNCHANGED resp
            ELSE /\ Finish(r, Uncaught)
                 /\ UNCHANGED <<sessions, browser, calls>>
    /\ UNCHANGED <<variant, gitCommit, document, request, targetUrl, fields, png, aiArgs>>

\* A call whose failure is not caught: on success the invocation goes on to
\* call `next`, on failure the exception leaves fetch.
Step(r, op, next) ==
    /\ pc[r] = op
    /\ \E ok \in BOOLEAN :
         /\ Answered(r, op, ok)
         /\ IF ok
            THEN Await(r, next) /\ UNCHANGED resp
            ELSE Finish(r, Uncaught) /\ UNCHANGED calls
    /\ UNCHANGED <<variant, gitCommit, document, request, targetUrl, browser, fields, png,
                   aiArgs, sessions>>

\* browser.newContext(), context.newPage(), page.goto(targetUrl, ...)
NewContext(r) == Step(r, "newContext", "newPage")
NewPage(r) == Step(r, "newPage", "goto")
Goto(r) == Step(r, "goto", "waitForSelector")

\* page.waitForSelector(...) inside try {} catch {}
WaitForSelector(r) ==
    /\ pc[r] = "waitForSelector"
    /\ \E ok \in BOOLEAN :
         /\ Answered(r, "waitForSelector", ok)
         /\ IF waitCatch(ok) = Thrown
            THEN Finish(r, Uncaught) /\ UNCHANGED calls
            ELSE Await(r, "evaluate") /\ UNCHANGED resp
    /\ UNCHANGED <<variant, gitCommit, document, request, targetUrl, browser, fields, png,
                   aiArgs, sessions>>

\* page.evaluate(...) resolved to the scrape of the rendered document, or threw.
Evaluate(r, Docs) ==
    /\ pc[r] = "evaluate"
    /\ \E ok \in BOOLEAN :
         IF ok
         THEN \E doc \in Docs :
                /\ AnsweredWith(r, "evaluate", ok, Scrape(doc))
                /\ document' = [document EXCEPT ![r] = doc]
                /\ fields' = [fields EXCEPT ![r] = Scrape(doc)]
                /\ Await(r, "screenshot")
                /\ UNCHANGED resp
         ELSE /\ Answered(r, "evaluate", ok)
              /\ Finish(r, Uncaught)
              /\ UNCHANGED <<document, fields, calls>>
    /\ UNCHANGED <<variant, gitCommit, request, targetUrl, browser, png, aiArgs,
                   sessions>>

\* page.screenshot(...).catch(() => undefined) resolved; browser.close() is called.
Screenshot(r) ==
    /\ pc[r] = "screenshot"
    /\ \E ok \in BOOLEAN :
         /\ Answered(r, "screenshot", ok)
         /\ IF screenshotCatch(ok) = Thrown
            THEN Finish(r, Uncaught) /\ UNCHANGED <<png, calls>>
            ELSE /\ png' = [png EXCEPT ![r] = screenshotCatch(ok)]
                 /\ Await(r, "close")
                 /\ UNCHANGED resp
    /\ UNCHANGED <<variant, gitCommit, document, request, targetUrl, browser, fields, aiArgs,
                   sessions>>

\* browser.close() resolved: the session is closed and the response is built.
\* (The close of an open session is taken to resolve.)
Close(r) ==
    /\ pc[r] = "close"
    /\ Answered(r, "close", TRUE)
    /\ sessions' = [sessions EXCEPT ![BrowserOf(r)] =
                      [@ EXCEPT !.open = FALSE, !.closes = @ + 1]]
    /\ Finish(r, ExtractResponse(targetUrl[r], fields[r], png[r]))
    /\ UNCHANGED <<variant, gitCommit, document, request, targetUrl, browser, fields, png,
                   calls, aiArgs>>

(***************************************************************************)
(* The requests and documents the specifications draw from.                *)
(***************************************************************************)
Methods == {"GET", "POST", "PUT", "DELETE"}
KnownPaths == {"/health", "/version", "/sse", "/sse/message", "/mcp", "/extract"}
Paths == KnownPaths \cup {"/", "/sse/x"}

Req(method, path, body) == [method |-> method, path |-> path, body |-> body]

\* Every value a field of a POST /sse body takes here: absent, null, a
\* falsy value of its type, a truthy one.
MessagesValues == {Undefined, Null, List(<<>>), List(<<Msg(Str("system"), Str("be brief"))>>)}
PromptValues == {Undefined, Null, Str(""), Str("hello")}
ModelValues == {Undefined, Null, Str(""), Str("@cf/other")}
StreamValues == {Undefined, Null, Bool(FALSE), Bool(TRUE)}
MaxTokensValues == {Undefined, Null, Num(0), Num(16)}
UrlValues == {Undefined, Null, Str(""), Str("https://jobs.example/apply")}

\* Bodies that are no JSON object: not JSON at all, JSON null, a JSON string.
NonObjects == {Malformed, Null, Str("text")}

SseBodies ==
    NonObjects \cup
    {Obj(m, p, mo, s, mt, Undefined) :
        m \in MessagesValues, p \in PromptValues, mo \in ModelValues,
        s \in StreamValues, mt \in MaxTokensValues}

ExtractBodies ==
    NonObjects \cup
    {Obj(Undefined, Undefined, Undefined, Undefined, Undefined, u) : u \in UrlValues}

\* Every method on every path; the routes that read a body get every body.
AllInputs ==
    {Req(m, p, Malformed) : m \in Methods, p \in Paths}
    \cup {Req("POST", "/sse", b) : b \in SseBodies}
    \cup {Req("POST", "/extract", b) : b \in ExtractBodies}

\* One request of each behaviour, for the runs with several requests in flight.
FewInputs ==
    {Req("GET", "/health", Malformed), Req("GET", "/version", Malformed),
     Req("GET", "/sse", Malformed), Req("POST", "/mcp", Malformed),
     Req("PUT", "/", Malformed),
     Req("POST", "/sse", Obj(Undefined, Str("hello"), Undefined, Undefined, Undefined, Undefined)),
     Req("POST", "/extract", Malformed),
     Req("POST", "/extract", Obj(Undefined, Undefined, Undefined, Undefined, Undefined,
                                 Str("https://jobs.example/apply")))}

\* A form control of a document.
Control(tag, type, name, wrapLabel, value) ==
    [tag |-> tag, type |-> type, hidden |-> FALSE, name |-> name, id |-> <<>>,
     forLabel |-> NoNode, wrapLabel |-> wrapLabel, heading |-> NoNode,
     value |-> value, placeholder |-> <<>>, required |-> FALSE, ariaRequired |-> ""]

\* Two same-named radios labelled Yes and No, and a text input.
YesNoDoc ==
    <<Control("INPUT", "radio", <<"q">>, <<"Y", "e", "s">>, <<"1">>),
      Control("INPUT", "radio", <<"q">>, <<"N", "o">>, <<"0">>),
      Control("INPUT", "text", <<"n">>, NoNode, <<>>)>>

\* A checkbox with no label and value="".
BareDoc == <<Control("INPUT", "checkbox", <<"c">>, NoNode, <<>>)>>

FewDocs == {YesNoDoc, BareDoc}

\* The controls the scrape specification builds documents from: radios,
\* checkboxes, text inputs and selects, with and without a name, a wrapping
\* label (padded, repeated, starred, blank) and a value; then controls with
\* an id and label[for], a heading, the required marks, a hidden one.
Controls ==
    {Control(k[1], k[2], n, w, v) :
        k \in {<<"INPUT", "radio">>, <<"INPUT", "checkbox">>, <<"INPUT", "text">>,
               <<"SELECT", "select-one">>},
        n \in {<<>>, <<"q">>},
        w \in {NoNode, <<" ">>, <<" ", "Y">>, <<"Y">>, <<"N", "*">>},
        v \in {<<>>, <<"Y">>}}
    \cup
    {[Control("INPUT", "radio", <<>>, <<"N">>, <<>>) EXCEPT
         !.id = <<"a">>, !.forLabel = <<"Y", " ", " ", "N", HeavyStar>>],
     [Control("INPUT", "checkbox", <<>>, NoNode, <<>>) EXCEPT
         !.heading = <<" ", "Y">>, !.ariaRequired = "true"],
     [Control("INPUT", "radio", <<"q">>, <<"N">>, <<>>) EXCEPT
         !.hidden = TRUE, !.required = TRUE],
     [Control("TEXTAREA", "textarea", <<" ", "q">>, NoNode, <<>>) EXCEPT
         !.placeholder = <<"Y", " ">>]}

\* Every document of at most MaxInputs controls.
AllDocs == UNION {[1..n -> Controls] : n \in 0..MaxInputs}

(***************************************************************************)
(* Specifications.                                                         *)
(***************************************************************************)
NextOf(R, Inputs, Docs) ==
    \E r \in R :
        \/ Fetch(r, Inputs)
        \/ SseBody(r)
        \/ AiRun(r)
        \/ ExtractBody(r)
        \/ Launch(r)
        \/ NewContext(r)
        \/ NewPage(r)
        \/ Goto(r)
        \/ WaitForSelector(r)
        \/ Evaluate(r, Docs)
        \/ Screenshot(r)
        \/ Close(r)

\* Several requests in flight, interleaved at their awaits.
Next == NextOf(Reqs, FewInputs, FewDocs)
Spec == Init /\ [][Next]_vars

\* One request, drawn from every method, path and body.
NextSolo == NextOf({1}, AllInputs, FewDocs)
SpecSolo == Init /\ [][NextSolo]_vars

\* One request, its extraction run on every document.
NextScrape == NextOf({1}, FewInputs, AllDocs)
SpecScrape == Init /\ [][NextScrape]_vars

(***************************************************************************)
(* Properties.                                                             *)
(***************************************************************************)
NotFound == TextResponse(404, Str("Not Found"))
Started(r) == pc[r] # "idle"
Done(r) == pc[r] = "done"
Is(r, method, path) == request[r].method = method /\ request[r].path = path
\* The sessions request r launched.
SessionsOf(r) == {k \in DOMAIN sessions : sessions[k].owner = r}
\* Call op of r has been answered with a failure / with success.
Failed(r, op) == \E k \in DOMAIN answers[r] : answers[r][k].op = op /\ ~answers[r][k].ok
Succeeded(r, op) == \E k \in DOMAIN answers[r] : answers[r][k].op = op /\ answers[r][k].ok

\* The (method, path) pairs the route table of the specification lists.
InRouteTable(method, path) ==
    \/ method = "GET" /\ path \in {"/health", "/version", "/sse", "/sse/message"}
    \/ method = "POST" /\ path \in {"/sse", "/extract"}
    \/ path = "/mcp"

\* C1 as stated: a request reaches the agent's SSE handler only as GET /sse or
\* GET /sse/message, the agent's HTTP handler only on /mcp, and every request
\* whose (method, path) is not in the route table gets 404 "Not Found".
C1_RouteTableAsStated ==
    \A r \in Reqs : Done(r) =>
        /\ resp[r] = McpResponse("serveSSE") =>
              request[r].method = "GET" /\ request[r].path \in {"/sse", "/sse/message"}
        /\ resp[r] = McpResponse("serve") => request[r].path = "/mcp"
        /\ ~InRouteTable(request[r].method, request[r].path) => resp[r] = NotFound

\* C1 amended: a request reaches the agent's SSE handler exactly when its path
\* is /sse or /sse/message and it is not POST /sse (whatever the method), the
\* agent's HTTP handler exactly when its path is /mcp, and every request whose
\* path is none of /sse, /sse/message, /mcp and whose (method, path) is none
\* of GET /health, GET /version, POST /extract gets 404 "Not Found"; the agent
\* is called once by a forwarded request and not at all by any other.
C1_RouteTableAnyMethod ==
    \A r \in Reqs : Done(r) =>
        /\ resp[r] = McpResponse("serveSSE") <=>
              /\ request[r].path \in {"/sse", "/sse/message"}
              /\ ~Is(r, "POST", "/sse")
        /\ resp[r] = McpResponse("serve") <=> request[r].path = "/mcp"
        /\ ( /\ request[r].path \notin {"/sse", "/sse/message", "/mcp"}
             /\ ~Is(r, "GET", "/health") /\ ~Is(r, "GET", "/version")
             /\ ~Is(r, "POST", "/extract") ) => resp[r] = NotFound
        /\ resp[r].kind = "mcp" => calls[r] = <<"MCP." \o resp[r].handler>>
        /\ resp[r].kind # "mcp" =>
              \A k \in DOMAIN calls[r] : calls[r][k] \notin {"MCP.serveSSE", "MCP.serve"}

\* A POST on /sse/message has been forwarded to the agent's SSE handler.
C1_Witness ==
    \E r \in Reqs :
        /\ Done(r) /\ Is(r, "POST", "/sse/message")
        /\ resp[r] = McpResponse("serveSSE") /\ calls[r] = <<"MCP.serveSSE">>

\* C2: a request on a path other than /health, /version, /sse, /sse/message,
\* /mcp, /extract is answered 404, whatever its method, without an exception
\* and without a call on the generation binding, the browser binding or the
\* MCP agent.
C2_UnknownPath404 ==
    \A r \in Reqs : (Started(r) /\ request[r].path \notin KnownPaths) =>
        /\ Done(r)
        /\ resp[r].kind = "text" /\ resp[r].status = 404
        /\ calls[r] = <<>> /\ answers[r] = <<>>
        /\ aiArgs[r] = Undefined
        /\ SessionsOf(r) = {}

\* A DELETE on an unknown path has been answered 404.
C2_Witness ==
    \E r \in Reqs :
        /\ Is(r, "DELETE", "/sse/x") /\ Done(r)
        /\ resp[r] = NotFound /\ calls[r] = <<>>

\* A field the body supplies: the body is a JSON object and the field is in
\* it with a value other than null (null reads as absent under ??).
Supplied(b, f) == b.t = "obj" /\ b[f].t \notin {"undefined", "null"}
\* The request has made its call on the generation binding.
Generated(r) == Is(r, "POST", "/sse") /\ pc[r] \in {"AI.run", "done"}

\* C3: on POST /sse the messages given to the generation call are
\* body.messages, unchanged, for every body that supplies messages (whatever
\* prompt is), and otherwise the one-element list [{role:"user", content: P}]
\* with P = body.prompt if supplied and "" if not.
C3_Messages ==
    \A r \in Reqs : Generated(r) =>
        LET b == request[r].body IN
        /\ aiArgs[r] # Undefined
        /\ aiArgs[r].messages =
              IF Supplied(b, "messages") THEN b.messages
              ELSE List(<<[t |-> "msg", role |-> Str("user"),
                           content |-> IF Supplied(b, "prompt") THEN b.prompt ELSE Str("")]>>)

\* A body with both messages and prompt has had its messages forwarded.
C3_Witness ==
    \E r \in Reqs :
        /\ Generated(r)
        /\ Supplied(request[r].body, "messages") /\ Supplied(request[r].body, "prompt")
        /\ aiArgs[r].messages = request[r].body.messages

\* C4: on POST /sse each of model, stream, max_tokens is defaulted on its own:
\* absent from the body, the generation call gets
\* "@cf/meta/llama-3.3-70b-instruct-fp8-fast", true, 2048; present, the value
\* is passed unchanged, also a falsy one (stream:false, max_tokens:0, model:"").
C4_Defaults ==
    \A r \in Reqs : Generated(r) =>
        LET b == request[r].body IN
        /\ aiArgs[r] # Undefined
        /\ aiArgs[r].model =
              IF Supplied(b, "model") THEN b.model
              ELSE Str("@cf/meta/llama-3.3-70b-instruct-fp8-fast")
        /\ aiArgs[r].stream = IF Supplied(b, "stream") THEN b.stream ELSE Bool(TRUE)
        /\ aiArgs[r].max_tokens =
              IF Supplied(b, "max_tokens") THEN b.max_tokens ELSE Num(2048)

\* A body with stream:false and max_tokens:0 and no model has been passed on
\* with both falsy values kept and the model defaulted.
C4_Witness ==
    \E r \in Reqs :
        /\ Generated(r) /\ request[r].body.t = "obj"
        /\ request[r].body.stream = Bool(FALSE) /\ aiArgs[r].stream = Bool(FALSE)
        /\ request[r].body.max_tokens = Num(0) /\ aiArgs[r].max_tokens = Num(0)
        /\ request[r].body.model = Undefined
        /\ aiArgs[r].model = Str("@cf/meta/llama-3.3-70b-instruct-fp8-fast")

\* C5: a body that is not JSON never surfaces as a parse error on POST /sse or
\* POST /extract: the handler does what it does for {}.  POST /sse calls the
\* generation service with the four defaults (and fails only if that call
\* fails); POST /extract, where the route exists, answers 400 for the
\* missing url.
C5_MalformedAsEmpty ==
    \A r \in Reqs : (Started(r) /\ request[r].body = Malformed) =>
        /\ Is(r, "POST", "/sse") =>
              /\ pc[r] \in {"generate:json", "AI.run", "done"}
              /\ pc[r] # "generate:json" =>
                    /\ calls[r] = <<"AI.run">>
                    /\ aiArgs[r] =
                          [messages |-> List(<<[t |-> "msg", role |-> Str("user"),
                                                content |-> Str("")]>>),
                           model |-> Str("@cf/meta/llama-3.3-70b-instruct-fp8-fast"),
                           stream |-> Bool(TRUE), max_tokens |-> Num(2048)]
              /\ (Done(r) /\ resp[r] = Uncaught) => Failed(r, "AI.run")
        /\ (Is(r, "POST", "/extract") /\ variant = 2) =>
              /\ pc[r] \in {"extract:json", "done"}
              /\ Done(r) =>
                    /\ resp[r].kind = "json" /\ resp[r].status = 400
                    /\ "error" \in DOMAIN resp[r].json
                    /\ calls[r] = <<>>

\* A POST /sse with a body that is not JSON has been answered with the stream
\* of a generation call.
C5_Witness ==
    \E r \in Reqs :
        /\ Is(r, "POST", "/sse") /\ request[r].body = Malformed /\ variant = 2
        /\ Done(r) /\ resp[r] = StreamResponse(AiStream)

\* The body has no url, or an empty one.
NoUrl(b) == b.t # "obj" \/ b.url \in {Undefined, Null, Str("")}

\* C6: POST /extract with a body without url (or with an empty one) is
\* answered 400 with a JSON body that has the key error, before any browser
\* session is launched: no launch, navigation, evaluation, screenshot or
\* close call is made for the request.
C6_MissingUrl400 ==
    \A r \in Reqs :
        (variant = 2 /\ Is(r, "POST", "/extract") /\ NoUrl(request[r].body)) =>
            /\ pc[r] \in {"extract:json", "done"}
            /\ calls[r] = <<>> /\ answers[r] = <<>>
            /\ SessionsOf(r) = {} /\ browser[r] = 0
            /\ Done(r) =>
                  /\ resp[r].kind = "json" /\ resp[r].status = 400
                  /\ "error" \in DOMAIN resp[r].json

\* A POST /extract with url:"" has been answered 400 with no browser call.
C6_Witness ==
    \E r \in Reqs :
        /\ Is(r, "POST", "/extract") /\ Done(r)
        /\ request[r].body.t = "obj" /\ request[r].body.url = Str("")
        /\ resp[r] = MissingUrlResponse /\ calls[r] = <<>> /\ sessions = <<>>

\* The request launched a browser session.
Launched(r) == browser[r] # 0

\* C7 as stated: every POST /extract request that launched a browser session
\* has closed it exactly once by the time its handling ends, however the
\* handler exits.
C7_ClosedExactlyOnce ==
    \A r \in Reqs : (Done(r) /\ Launched(r)) =>
        /\ ~sessions[browser[r]].open
        /\ sessions[browser[r]].closes = 1

\* What does hold: a session is closed at most once, and it is closed when
\* its request ends with a response of its own rather than an exception.
ClosedOnReturn ==
    \A r \in Reqs : Launched(r) =>
        /\ sessions[browser[r]].closes <= 1
        /\ (Done(r) /\ resp[r] # Uncaught) =>
              ~sessions[browser[r]].open /\ sessions[browser[r]].closes = 1

\* The calls of an extraction, in the order of the source.
ExtractCalls ==
    <<"launch", "newContext", "newPage", "goto", "waitForSelector", "evaluate",
      "screenshot", "close">>
\* Call op of r has been answered.
AnsweredOp(r, op) == \E k \in DOMAIN answers[r] : answers[r][k].op = op
\* No call of r whose failure the source does not catch has failed.
NoUncaughtFailure(r) ==
    \A op \in {"launch", "newContext", "newPage", "goto", "evaluate"} : ~Failed(r, op)

\* C9: in POST /extract with a url, a failure of the selector wait or of the
\* screenshot does not fail the request: the handler goes on with the steps
\* that remain, in order (evaluate, screenshot, close), closes the session
\* and answers 200 with url, extracted_at, fields and groups; the key
\* screenshot_png_base64 is in the answer exactly when the screenshot succeeded.
C9_BestEffortSteps ==
    \A r \in Reqs : Launched(r) =>
        /\ calls[r] = SubSeq(ExtractCalls, 1, Len(calls[r]))
        /\ (AnsweredOp(r, "waitForSelector") /\ pc[r] # "done") => Len(calls[r]) >= 6
        /\ (AnsweredOp(r, "screenshot") /\ pc[r] # "done") => calls[r] = ExtractCalls
        /\ (Done(r) /\ NoUncaughtFailure(r)) =>
              /\ calls[r] = ExtractCalls
              /\ ~sessions[browser[r]].open
              /\ resp[r].kind = "json" /\ resp[r].status = 200
              /\ {"url", "extracted_at", "fields", "groups"} \subseteq DOMAIN resp[r].json
              /\ resp[r].json.url = request[r].body.url
              /\ "screenshot_png_base64" \in DOMAIN resp[r].json <=> Succeeded(r, "screenshot")

\* An extraction whose selector wait and screenshot both failed has been
\* answered 200 without a screenshot, its session closed.
C9_Witness ==
    \E r \in Reqs :
        /\ Done(r) /\ Launched(r)
        /\ Failed(r, "waitForSelector") /\ Failed(r, "screenshot")
        /\ resp[r].kind = "json" /\ resp[r].status = 200
        /\ "screenshot_png_base64" \notin DOMAIN resp[r].json
        /\ ~sessions[browser[r]].open

\* The value the answered call op of r resolved to.
ValueOf(r, op) ==
    LET k == CHOOSE i \in DOMAIN answers[r] : answers[r][i].op = op IN answers[r][k].value

\* The response request r gets when it is the only request: the handler run
\* from its first line to its return on the request and on the answers its
\* own calls got.
Alone(r) ==
    LET req == request[r]
        route == Route(variant, req.method, req.path)
        body == IF variant = 1 THEN jsonCatch(req.body) ELSE readJson(req.body)
    IN CASE route = "health" -> TextResponse(200, Str("ok"))
         [] route = "version" -> TextResponse(200, VersionText(gitCommit))
         [] route = "generate" ->
               IF Succeeded(r, "AI.run") THEN StreamResponse(AiStream) ELSE Uncaught
         [] route = "extract" ->
               IF MissingUrl(body) THEN MissingUrlResponse
               ELSE IF ~NoUncaughtFailure(r) THEN Uncaught
               ELSE ExtractResponse(Get(body, "url"), ValueOf(r, "evaluate"),
                                    IF Succeeded(r, "screenshot") THEN PngBytes ELSE Undefined)
         [] route \in {"serveSSE", "serve"} -> McpResponse(route)
         [] OTHER -> NotFound

\* C10: requests are handled independently under every interleaving of their
\* awaited steps.  The response of each request is the one it gets alone on
\* the same answers of the external services; each POST /extract request
\* that launches gets a session of its own, no session is shared or reused,
\* and a session is closed only by the request that launched it.
C10_Independent ==
    /\ \A r \in Reqs : Done(r) => resp[r] = Alone(r)
    /\ \A r \in Reqs :
          /\ Launched(r) <=> Succeeded(r, "launch")
          /\ Launched(r) => SessionsOf(r) = {browser[r]}
          /\ ~Launched(r) => SessionsOf(r) = {}
    /\ \A k \in DOMAIN sessions :
          /\ sessions[k].closes = IF AnsweredOp(sessions[k].owner, "close") THEN 1 ELSE 0
          /\ sessions[k].open <=> ~AnsweredOp(sessions[k].owner, "close")

\* Two extractions are in flight with a session each; the one that launched
\* first has closed its session and been answered, the other has its session
\* still open.
C10_Witness ==
    \E r, q \in Reqs :
        /\ r # q /\ browser[r] = 1 /\ browser[q] = 2
        /\ Done(r) /\ resp[r].kind = "json" /\ resp[r].status = 200
        /\ ~sessions[1].open
        /\ pc[q] = "evaluate" /\ sessions[2].open

\* The 200 answers to POST /extract.
Extracted == {r \in Reqs : Done(r) /\ resp[r].kind = "json" /\ resp[r].status = 200}
\* A sequence without a repeated member.
Distinct(q) == \A i, j \in DOMAIN q : i # j => q[i] # q[j]
\* The option labels of the radios and checkboxes of group g, one for each
\* input, in document order.
LabelsOf(doc, g) ==
    LET ins == SelectSeq(doc, LAMBDA i : /\ i.tag = "INPUT"
                                         /\ i.type \in {"radio", "checkbox"}
                                         /\ GroupKey(i) = g)
    IN [k \in DOMAIN ins |-> OptLabel(ins[k])]
\* Where x first occurs in q.
FirstAt(q, x) == CHOOSE i \in DOMAIN q : q[i] = x /\ \A j \in 1..(i - 1) : q[j] # x
\* opts is the list of the distinct labels of `labels`, each where it first
\* occurs; an empty label is no option.
FirstOccurrenceList(opts, labels) ==
    /\ opts.t = "list"
    /\ Distinct(opts.v)
    /\ {opts.v[k] : k \in DOMAIN opts.v} = {labels[k] : k \in DOMAIN labels} \ {<<>>}
    /\ \A i, j \in DOMAIN opts.v :
          i < j => FirstAt(labels, opts.v[i]) < FirstAt(labels, opts.v[j])

\* C8 as stated: in every group returned by POST /extract, options is an
\* ordered list of the distinct option labels in the order each first occurs
\* in the document, also in a group whose inputs all yield an empty label.
C8_OptionsListOfDistinct ==
    \A r \in Extracted : \A k \in DOMAIN resp[r].json.groups.v :
        LET g == resp[r].json.groups.v[k]
        IN FirstOccurrenceList(g.options, LabelsOf(document[r], g.group))

\* What does hold: options is that list in every group with at least one
\* non-empty option label, and the empty object {} in every other group.
OptionsListWhenNonEmpty ==
    \A r \in Extracted : \A k \in DOMAIN resp[r].json.groups.v :
        LET g == resp[r].json.groups.v[k]
            labels == LabelsOf(document[r], g.group)
        IN IF \E n \in DOMAIN labels : labels[n] # <<>>
           THEN FirstOccurrenceList(g.options, labels)
           ELSE g.options = [t |-> "object", v |-> <<>>]

\* Two same-named radios labelled Yes and No have been returned as one group
\* with options [Yes, No].
YesNoReturned ==
    \E r \in Extracted :
        /\ document[r] = YesNoDoc
        /\ Len(resp[r].json.groups.v) = 1
        /\ resp[r].json.groups.v[1].options = List(<<<<"Y", "e", "s">>, <<"N", "o">>>>)

====
